---------------------------- MODULE Spec2Model ----------------------------
(***************************************************************************)
(* A model of snakenest (src/parse.py): the quote/paren/escape aware       *)
(* scanner, the name decoder, the recursive predicate parser, Predicate    *)
(* and AnswerSet with their indexes and lookups, the text rendering, and   *)
(* parse_raw with the process-wide line counter `rawline`.                 *)
(*                                                                         *)
(* Python values are modelled as follows.                                  *)
(*   str           a sequence of one-character strings                     *)
(*   None / value  NoneVal = <<>> / Some(v) = <<v>>  (an optional)         *)
(*   return/raise  a record [exc, what, line, ctx, val]: exc = "none" for  *)
(*                 a normal return of val, otherwise the exception class,  *)
(*                 `what` the message kind, `line` the optional line       *)
(*                 number the message carries, `ctx` the text it quotes    *)
(*   dict          a function from its keys to its values; the iteration   *)
(*                 order of its keys is an input of the code that iterates *)
(*   global        rawline is read by the parsing functions: they take the *)
(*                 value it has at the time of the call as parameter rl    *)
(*   x = f(...)    a LET operator After...(x) holds the statements that    *)
(*                 follow the call and is applied to what f returned or    *)
(*                 raised; an exception goes up past them                  *)
(***************************************************************************)
EXTENDS Integers, Sequences, FiniteSets, TLC

VARIABLES
  rawline,   \* the module global of src/parse.py:25
  pc,        \* "ready": a call is about to be made; "done": it has ended
  call,      \* the function called and its arguments
  ret        \* what the call returned or raised

vars == <<rawline, pc, call, ret>>

---------------------------------------------------------------------------
(* Values *)

NoneVal == <<>>
Some(v) == <<v>>

Ok(v) == [exc |-> "none", what |-> "none", line |-> NoneVal, ctx |-> <<>>, val |-> v]
Raise(exc, what, line, ctx) ==
  [exc |-> exc, what |-> what, line |-> line, ctx |-> ctx, val |-> <<>>]

NoReturn == [exc |-> "pending", what |-> "none", line |-> NoneVal, ctx |-> <<>>, val |-> <<>>]

Min(a, b) == IF a < b THEN a ELSE b
Max(a, b) == IF a > b THEN a ELSE b

\* text[lo:hi] of Python, lo and hi 0-based and already non-negative
Slice(text, lo, hi) == SubSeq(text, lo + 1, Min(hi, Len(text)))

\* All sequences over S of length at most n
BoundedSeq(S, n) == UNION {[1..k -> S] : k \in 0..n}

quotecontext == 5

---------------------------------------------------------------------------
(* scan, src/parse.py:117-184 *)

ScanStart == [inquote |-> FALSE, escaped |-> FALSE, end |-> 0, pdepth |-> 0,
              lastquote |-> NoneVal, i |-> 0, stop |-> "run"]

\* The for loop of scan from index i (0-based) on; stop is "run" when the loop
\* ran to the end of text, "break" when it broke at the target, "raise" when
\* it raised at an extra closing paren.
RECURSIVE ScanLoop(_, _, _, _, _, _)
ScanLoop(text, target, honorquotes, honorparens, i, s) ==
  IF i >= Len(text) THEN s
  ELSE
    LET c  == text[i + 1]
        s1 == [s EXCEPT !.end = i, !.i = i]
    IN  IF s.escaped
          THEN ScanLoop(text, target, honorquotes, honorparens, i + 1,
                        [s1 EXCEPT !.escaped = FALSE])
        ELSE IF c = "\\"
          THEN ScanLoop(text, target, honorquotes, honorparens, i + 1,
                        [s1 EXCEPT !.escaped = TRUE])
        ELSE IF c = "\"" /\ honorquotes
          THEN ScanLoop(text, target, honorquotes, honorparens, i + 1,
                        [s1 EXCEPT !.inquote = ~s.inquote, !.lastquote = Some(i)])
        ELSE IF c = "(" /\ honorparens /\ ~s.inquote
          THEN ScanLoop(text, target, honorquotes, honorparens, i + 1,
                        [s1 EXCEPT !.pdepth = s.pdepth + 1])
        ELSE IF c = ")" /\ honorparens /\ ~s.inquote
          THEN IF s.pdepth - 1 < 0
                 THEN [s1 EXCEPT !.pdepth = s.pdepth - 1, !.stop = "raise"]
                 ELSE ScanLoop(text, target, honorquotes, honorparens, i + 1,
                               [s1 EXCEPT !.pdepth = s.pdepth - 1])
        ELSE IF c = target /\ ~s.inquote /\ s.pdepth = 0
          THEN [s1 EXCEPT !.stop = "break"]
        ELSE ScanLoop(text, target, honorquotes, honorparens, i + 1, s1)

\* Lines 159-164 and 167-184: what scan raises or returns once the loop has
\* ended with the variables s
ScanEnd(text, target, rl, s) ==
  IF s.stop = "raise"
    THEN Raise("ValueError", "extra closing paren", Some(rl), Slice(text, 0, s.i + 1))
  ELSE IF s.inquote
    THEN Raise("ValueError", "mismatched quotes", Some(rl),
               Slice(text, Max(0, s.lastquote[1] - quotecontext),
                     s.lastquote[1] + quotecontext))
  ELSE IF s.pdepth # 0
    THEN Raise("ValueError", "missing closing paren", Some(rl), Slice(text, 0, s.i + 1))
  ELSE IF text[s.end + 1] = target
    THEN Ok(<<Slice(text, 0, s.end), Some(Slice(text, s.end + 1, Len(text)))>>)
  ELSE IF s.i # Len(text) - 1
    THEN Raise("AssertionError", "none", NoneVal, <<>>)
  ELSE Ok(<<text, NoneVal>>)

\* Returns Ok(<<prefix, remainder>>), remainder an optional (None: no match)
scan(text, target, honorquotes, honorparens, rl) ==
  IF text = <<>> THEN Ok(<<<<>>, NoneVal>>)
  ELSE IF target = "\"" /\ honorquotes
    THEN Raise("ValueError", "honor quotes", NoneVal, <<>>)
  ELSE IF target \in {"(", ")"} /\ honorparens
    THEN Raise("ValueError", "honor parens", NoneVal, <<>>)
  ELSE ScanEnd(text, target, rl,
               ScanLoop(text, target, honorquotes, honorparens, 0, ScanStart))

---------------------------------------------------------------------------
(* intended_name, src/parse.py:186-227 *)

NameStart == [result |-> <<>>, inquote |-> FALSE, escaped |-> FALSE,
              lastquote |-> NoneVal]

\* The for loop of intended_name from index i (0-based) on
RECURSIVE NameLoop(_, _, _)
NameLoop(name, i, s) ==
  IF i >= Len(name) THEN s
  ELSE
    LET c == name[i + 1]
    IN  IF s.escaped
          THEN NameLoop(name, i + 1,
                 [s EXCEPT !.escaped = FALSE,
                           !.result = IF c = "\\" THEN s.result \o <<"\\">>
                                      ELSE IF c = "\"" THEN s.result \o <<"\"">>
                                      ELSE s.result \o <<"\\", c>>])
        ELSE IF c = "\\"
          THEN NameLoop(name, i + 1, [s EXCEPT !.escaped = TRUE])
        ELSE IF c = "\""
          THEN NameLoop(name, i + 1,
                 [s EXCEPT !.inquote = ~s.inquote, !.lastquote = Some(i)])
        ELSE NameLoop(name, i + 1, [s EXCEPT !.result = s.result \o <<c>>])

\* Line 223 reads `text`, which is no name of intended_name nor of the module:
\* building the message raises NameError before the ValueError exists.
NameEnd(s) ==
  IF s.inquote
    THEN Raise("NameError", "text", NoneVal, <<>>)
    ELSE Ok(s.result)

intended_name(name, rl) == NameEnd(NameLoop(name, 0, NameStart))

---------------------------------------------------------------------------
(* Predicate, src/parse.py:319-391 *)

RECURSIVE UnionStrings(_, _)
UnionStrings(children, acc) ==
  IF children = <<>> THEN acc
  ELSE UnionStrings(Tail(children), acc \cup Head(children).strings)

\* Predicate.__init__
Predicate(name, children) ==
  [name |-> name, children |-> children, arity |-> Len(children),
   strings |-> UnionStrings(children, {name})]

\* str.replace of one character by a text
RECURSIVE Replace(_, _, _)
Replace(text, old, new) ==
  IF text = <<>> THEN <<>>
  ELSE (IF Head(text) = old THEN new ELSE <<Head(text)>>)
       \o Replace(Tail(text), old, new)

\* c in text, for a character c
Contains(text, c) == \E i \in 1..Len(text) : text[i] = c

\* sep.join(parts)
RECURSIVE Join(_, _)
Join(parts, sep) ==
  IF parts = <<>> THEN <<>>
  ELSE IF Len(parts) = 1 THEN parts[1]
  ELSE parts[1] \o sep \o Join(Tail(parts), sep)

\* Predicate.__str__
RECURSIVE Predicate_str(_)
Predicate_str(p) ==
  LET name ==
        IF \/ Contains(p.name, " ") \/ Contains(p.name, "(")
           \/ Contains(p.name, ")") \/ Contains(p.name, "\\")
           \/ Contains(p.name, "\"")
          THEN <<"\"">>
               \o Replace(Replace(p.name, "\\", <<"\\", "\\">>), "\"", <<"\\", "\"">>)
               \o <<"\"">>
          ELSE p.name
  IN  IF p.children # <<>>
        THEN name \o <<"(">>
             \o Join([k \in 1..Len(p.children) |-> Predicate_str(p.children[k])], <<",">>)
             \o <<")">>
        ELSE name

---------------------------------------------------------------------------
(* parse_predicate and parse_children, src/parse.py:87-115 *)

\* `not tail` for an optional text: None or the empty text
Falsy(tail) == tail = NoneVal \/ tail[1] = <<>>

RECURSIVE parse_predicate(_, _), parse_children(_, _)

parse_predicate(term, rl) ==
  LET \* line 104
      AfterChildren(name, children) ==
        IF children.exc # "none" THEN children
        ELSE Ok(Predicate(name, children.val))
      \* lines 94-103
      AfterName(name, tail) ==
        IF name.exc # "none" THEN name
        ELSE IF Falsy(tail) THEN Ok(Predicate(name.val, <<>>))
        ELSE IF tail[1][Len(tail[1])] # ")"
          THEN Raise("ValueError", "malformed predicate", Some(rl), term)
        ELSE AfterChildren(name.val,
                           parse_children(Slice(tail[1], 0, Len(tail[1]) - 1), rl))
      \* line 93
      AfterScan(s) ==
        IF s.exc # "none" THEN s
        ELSE AfterName(intended_name(s.val[1], rl), s.val[2])
  IN  AfterScan(scan(term, "(", TRUE, FALSE, rl))

\* Line 114 parses the rest before line 115 parses the first child
parse_children(tail, rl) ==
  LET \* lines 113 and 115: [parse_predicate(child)] + rest
      AfterChild(p, rest) ==
        IF p.exc # "none" THEN p ELSE Ok(<<p.val>> \o rest)
      \* line 115
      AfterRest(child, rest) ==
        IF rest.exc # "none" THEN rest
        ELSE AfterChild(parse_predicate(child, rl), rest.val)
      \* lines 112-114
      AfterScan(s) ==
        IF s.exc # "none" THEN s
        ELSE IF Falsy(s.val[2]) THEN AfterChild(parse_predicate(s.val[1], rl), <<>>)
        ELSE AfterRest(s.val[1], parse_children(s.val[2][1], rl))
  IN  AfterScan(scan(tail, ",", TRUE, TRUE, rl))

---------------------------------------------------------------------------
(* AnswerSet, src/parse.py:229-317 *)

\* IndexAdd with the predicate put first in its list
IndexAdd_Prepend(index, key, p) ==
  IF key \in DOMAIN index
    THEN [index EXCEPT ![key] = <<p>> \o @]
    ELSE index @@ (key :> <<p>>)

\* Lines 244-247 and 249-252: append p to the list under key, or start it
IndexAdd(index, key, p) ==
  IF key \in DOMAIN index
    THEN [index EXCEPT ![key] = Append(@, p)]
    ELSE index @@ (key :> <<p>>)

\* for s in p.strings: the order in which the names of a set are visited
\* changes only the order of the keys, which the index does not record
RECURSIVE IndexAddAll(_, _, _)
IndexAddAll(index, keys, p) ==
  IF keys = {} THEN index
  ELSE LET key == CHOOSE k \in keys : TRUE
       IN  IndexAddAll(IndexAdd(index, key, p), keys \ {key}, p)

\* The loop of AnswerSet.__init__ from the k-th predicate on
RECURSIVE AnswerSetLoop(_, _, _)
AnswerSetLoop(predicates, k, a) ==
  IF k > Len(predicates) THEN a
  ELSE LET p == predicates[k]
       IN  AnswerSetLoop(predicates, k + 1,
             [a EXCEPT !.byname = IndexAdd(a.byname, p.name, p),
                       !.bystrings = IndexAddAll(a.bystrings, p.strings, p)])

\* AnswerSet.__init__; set_number is no attribute until parse_set sets it
AnswerSet(predicates) ==
  AnswerSetLoop(predicates, 1,
    [predicates |-> predicates, byname |-> <<>>, bystrings |-> <<>>,
     set_number |-> NoneVal])

\* AnswerSet.__str__
AnswerSet_str(a) ==
  Join([k \in 1..Len(a.predicates) |-> Predicate_str(a.predicates[k])], <<" ">>)

\* AnswerSet.__eq__
AnswerSet_eq(a, b) == a.predicates = b.predicates

\* IsSubstring with the operands of `in` exchanged: test in name
IsSubstring_Reversed(name, test) ==
  \E i \in 0..(Len(name) - Len(test)) : SubSeq(name, i + 1, i + Len(test)) = test

\* name in test, for two texts
IsSubstring(name, test) ==
  \E i \in 0..(Len(test) - Len(name)) : SubSeq(test, i + 1, i + Len(name)) = name

\* Lines 308-311: the keys of lookin visited in the order `order`
RECURSIVE FuzzyLoop(_, _, _, _)
FuzzyLoop(lookin, name, order, matched) ==
  IF order = <<>> THEN matched
  ELSE FuzzyLoop(lookin, name, Tail(order),
         IF IsSubstring(name, Head(order))
           THEN matched \o lookin[Head(order)]
           ELSE matched)

\* AnswerSet.lookup; order is the order in which `for test in lookin` visits
\* the keys of the index, which the language (Python 3.2, line 3) leaves open
lookup(self, name, anynested, fuzzy, order) ==
  LET lookin == IF anynested THEN self.bystrings ELSE self.byname
  IN  IF fuzzy
        THEN AnswerSet(FuzzyLoop(lookin, name, order, <<>>))
        ELSE IF name \in DOMAIN lookin
          THEN AnswerSet(lookin[name])
          ELSE AnswerSet(<<>>)

---------------------------------------------------------------------------
(* parse_set, src/parse.py:64-85 *)

\* The while loop of parse_set; tail is an optional text
RECURSIVE ParseSetLoop(_, _, _)
ParseSetLoop(tail, predicates, rl) ==
  LET \* lines 80-82, and the loop again on the remainder
      AfterPredicate(predicate, rest) ==
        IF predicate.exc # "none" THEN predicate
        ELSE ParseSetLoop(rest, Append(predicates, predicate.val), rl)
      \* line 79
      AfterScan(s) ==
        IF s.exc # "none" THEN s
        ELSE AfterPredicate(parse_predicate(s.val[1], rl), s.val[2])
  IN  IF Falsy(tail) THEN Ok(predicates)
      ELSE AfterScan(scan(tail[1], " ", TRUE, FALSE, rl))

parse_set(line, set_number, rl) ==
  LET \* lines 83-85
      AfterLoop(predicates) ==
        IF predicates.exc # "none" THEN predicates
        ELSE Ok([AnswerSet(predicates.val) EXCEPT !.set_number = Some(set_number)])
  IN  IF line = <<>>
        THEN Ok([AnswerSet(<<>>) EXCEPT !.set_number = Some(set_number)])
        ELSE AfterLoop(ParseSetLoop(Some(line), <<>>, rl))

---------------------------------------------------------------------------
(* parse_raw, src/parse.py:28-62 *)

TrailerLines == 8
AnswerPrefixLen == 7

Text_Answer == <<"A", "n", "s", "w", "e", "r", ":">>
Text_SATISFIABLE == <<"S", "A", "T", "I", "S", "F", "I", "A", "B", "L", "E">>
Text_UNSATISFIABLE == <<"U", "N">> \o Text_SATISFIABLE

\* text.split(sep) for a one-character sep: cur is the piece being read
RECURSIVE Split(_, _, _)
Split(text, sep, cur) ==
  IF text = <<>> THEN <<cur>>
  ELSE IF Head(text) = sep THEN <<cur>> \o Split(Tail(text), sep, <<>>)
  ELSE Split(Tail(text), sep, Append(cur, Head(text)))

\* l.startswith(prefix)
StartsWith(l, prefix) ==
  Len(l) >= Len(prefix) /\ SubSeq(l, 1, Len(prefix)) = prefix

Digits == <<"0", "1", "2", "3", "4", "5", "6", "7", "8", "9">>
IsDigit(c) == \E d \in 1..10 : Digits[d] = c
DigitValue(c) == (CHOOSE d \in 1..10 : Digits[d] = c) - 1

\* text.strip() of blanks
RECURSIVE Strip(_)
Strip(text) ==
  IF text # <<>> /\ Head(text) = " " THEN Strip(Tail(text))
  ELSE IF text # <<>> /\ text[Len(text)] = " " THEN Strip(SubSeq(text, 1, Len(text) - 1))
  ELSE text

RECURSIVE DigitsValue(_, _)
DigitsValue(text, acc) ==
  IF text = <<>> THEN acc
  ELSE DigitsValue(Tail(text), 10 * acc + DigitValue(Head(text)))

\* int(text) on blanks, signs and decimal digits
PyInt(text) ==
  LET t      == Strip(text)
      signed == t # <<>> /\ Head(t) \in {"+", "-"}
      digits == IF signed THEN Tail(t) ELSE t
  IN  IF digits = <<>> \/ \E i \in 1..Len(digits) : ~IsDigit(digits[i])
        THEN Raise("ValueError", "invalid literal", NoneVal, text)
        ELSE Ok(IF signed /\ Head(t) = "-" THEN 0 - DigitsValue(digits, 0)
                ELSE DigitsValue(digits, 0))

\* AnswerNumber with the slice one character early: int(l[6:])
AnswerNumber_OffByOne(l) == PyInt(Slice(l, AnswerPrefixLen - 1, Len(l)))

\* Line 58: int(l[7:])
AnswerNumber(l) == PyInt(Slice(l, AnswerPrefixLen, Len(l)))

\* The for loop of parse_raw from the k-th line on; rl is rawline. The result
\* holds what the loop returns or raises and the value it leaves in rawline.
RECURSIVE RawLoop(_, _, _, _, _)
RawLoop(lines, k, answernum, sets, rl) ==
  LET \* lines 58-59, after rawline += 1
      AfterInt(n) ==
        IF n.exc # "none" THEN [ret |-> n, rawline |-> rl + 1]
        ELSE RawLoop(lines, k + 1, n.val, sets, rl + 1)
      \* line 61, after rawline += 1
      AfterSet(a) ==
        IF a.exc # "none" THEN [ret |-> a, rawline |-> rl + 1]
        ELSE RawLoop(lines, k + 1, answernum, Append(sets, a.val), rl + 1)
  IN  IF k > Len(lines) THEN [ret |-> Ok(sets), rawline |-> rl]
      ELSE IF StartsWith(lines[k], Text_Answer)
        THEN AfterInt(AnswerNumber(lines[k]))
        ELSE AfterSet(parse_set(lines[k], answernum, rl + 1))

\* Lines 40-62, on the lines of raw
ParseRawLines(all, rl) ==
  LET results   == SubSeq(all, Max(1, Len(all) - TrailerLines + 1), Len(all))
      lines     == SubSeq(all, 1, Len(all) - TrailerLines)
      indicator == results[1]
  IN  IF indicator = Text_UNSATISFIABLE THEN [ret |-> Ok(<<>>), rawline |-> rl]
      ELSE IF indicator # Text_SATISFIABLE
        THEN [ret |-> Raise("ValueError", "status", NoneVal, indicator), rawline |-> rl]
      ELSE RawLoop(lines, 1, 0, <<>>, rl)

parse_raw(raw, rl) == ParseRawLines(Split(raw, "\n", <<>>), rl)

---------------------------------------------------------------------------
(* Calls of scan on bounded texts *)

MaxScanLen == 4
ScanChars == {"a", " ", "(", ")", ",", "\\", "\""}

InitScan ==
  /\ rawline = 0 /\ pc = "ready" /\ ret = NoReturn
  /\ call \in {[fn |-> "scan", text |-> t, target |-> c,
                honorquotes |-> hq, honorparens |-> hp] :
                 t \in BoundedSeq(ScanChars, MaxScanLen), c \in ScanChars,
                 hq \in BOOLEAN, hp \in BOOLEAN}

Scan ==
  /\ pc = "ready" /\ call.fn = "scan"
  /\ ret' = scan(call.text, call.target, call.honorquotes, call.honorparens, rawline)
  /\ pc' = "done"
  /\ UNCHANGED <<rawline, call>>

SpecScan == InitScan /\ [][Scan]_vars

---------------------------------------------------------------------------
(* Calls of intended_name and of parse_predicate on bounded texts *)

MaxNameLen == 5
NameChars == {"a", "(", "\\", "\""}

InitName ==
  /\ rawline = 0 /\ pc = "ready" /\ ret = NoReturn
  /\ call \in {[fn |-> "intended_name", name |-> n] :
                 n \in BoundedSeq(NameChars, MaxNameLen)}

IntendedName ==
  /\ pc = "ready" /\ call.fn = "intended_name"
  /\ ret' = intended_name(call.name, rawline)
  /\ pc' = "done"
  /\ UNCHANGED <<rawline, call>>

SpecName == InitName /\ [][IntendedName]_vars

MaxTermLen == 5
TermChars == {"a", "(", ")", ",", "\\", "\""}

InitPredicate ==
  /\ rawline = 0 /\ pc = "ready" /\ ret = NoReturn
  /\ call \in {[fn |-> "parse_predicate", term |-> t] :
                 t \in BoundedSeq(TermChars, MaxTermLen)}

ParsePredicate ==
  /\ pc = "ready" /\ call.fn = "parse_predicate"
  /\ ret' = parse_predicate(call.term, rawline)
  /\ pc' = "done"
  /\ UNCHANGED <<rawline, call>>

SpecPredicate == InitPredicate /\ [][ParsePredicate]_vars

---------------------------------------------------------------------------
(* Rendering an AnswerSet and parsing the text again, src/test.py:25-30 *)

MaxDepth == 2
MaxChildren == 2
MaxTop == 2

\* The empty name (what "a()" parses to), a plain name, a name with a comma
\* (what a("b,") parses to) and a name that is rendered quoted
RoundNames == {<<>>, <<"a">>, <<"b", ",">>, <<"a", " ">>}

RECURSIVE Trees(_)
Trees(d) ==
  IF d = 0 THEN {}
  ELSE {Predicate(n, cs) : n \in RoundNames, cs \in BoundedSeq(Trees(d - 1), MaxChildren)}

InitRound ==
  /\ rawline = 0 /\ pc = "ready" /\ ret = NoReturn
  /\ call \in {[fn |-> "reparse", A |-> AnswerSet(ps)] :
                 ps \in BoundedSeq(Trees(MaxDepth), MaxTop)}

\* str(answers[0])
Render ==
  /\ pc = "ready" /\ call.fn = "reparse"
  /\ ret' = Ok(AnswerSet_str(call.A))
  /\ pc' = "rendered"
  /\ UNCHANGED <<rawline, call>>

\* snakenest.parse_set(...) of the rendered text
Reparse ==
  /\ pc = "rendered" /\ call.fn = "reparse"
  /\ ret' = parse_set(ret.val, 0, rawline)
  /\ pc' = "done"
  /\ UNCHANGED <<rawline, call>>

SpecRound == InitRound /\ [][Render \/ Reparse]_vars

---------------------------------------------------------------------------
(* Calls of AnswerSet.lookup *)

MaxPreds == 3

Leaf(n) == Predicate(n, <<>>)
Name_b == <<"b">>
Name_ba == <<"b", "a">>
Name_az == <<"a", "z">>
Name_baz == <<"b", "a", "z">>
Name_bz == <<"b", "z">>

\* The five predicates of the docstring of lookup
FiveLeaves == {Leaf(Name_b), Leaf(Name_ba), Leaf(Name_az), Leaf(Name_baz), Leaf(Name_bz)}

\* Leaves, and predicates with names nested one and two levels deep
LookupPool ==
  FiveLeaves \cup {Predicate(Name_b, <<Leaf(Name_ba)>>),
                   Predicate(Name_az, <<Predicate(Name_baz, <<Leaf(Name_b)>>)>>)}

\* All orders of the elements of a finite set
RECURSIVE Orders(_)
Orders(S) ==
  IF S = {} THEN {<<>>}
  ELSE UNION {{<<x>> \o o : o \in Orders(S \ {x})} : x \in S}

SearchNames == {<<>>, Name_b, Name_az, Name_baz}

\* AnswerSets of up to MaxPreds predicates of the pool, and the five leaves of
\* the docstring in every order
InitLookup ==
  /\ rawline = 0 /\ pc = "ready" /\ ret = NoReturn
  /\ call \in {[fn |-> "lookup", A |-> AnswerSet(ps), name |-> n,
                anynested |-> an, fuzzy |-> fz] :
                 ps \in BoundedSeq(LookupPool, MaxPreds) \cup Orders(FiveLeaves),
                 n \in SearchNames, an \in BOOLEAN, fz \in BOOLEAN}

Lookup ==
  /\ pc = "ready" /\ call.fn = "lookup"
  /\ \E order \in Orders(DOMAIN (IF call.anynested THEN call.A.bystrings
                                                     ELSE call.A.byname)) :
       ret' = Ok(lookup(call.A, call.name, call.anynested, call.fuzzy, order))
  /\ pc' = "done"
  /\ UNCHANGED <<rawline, call>>

SpecLookup == InitLookup /\ [][Lookup]_vars

---------------------------------------------------------------------------
(* Calls of parse_raw, one after another in the same process *)

MaxLines == 3
MaxRawline == 4

\* The decimal text of a natural number
RECURSIVE Decimal(_)
Decimal(n) ==
  IF n < 10 THEN <<Digits[n + 1]>> ELSE Decimal(n \div 10) \o <<Digits[(n % 10) + 1]>>

\* The header clingo prints before each answer
HeaderText(n) == Text_Answer \o <<" ">> \o Decimal(n)
AnswerNums == {1, 12}
HeaderLines == {HeaderText(n) : n \in AnswerNums}

\* Lines that parse, with the number of predicates each holds
Line_empty == <<>>
Line_a == <<"a">>
Line_two == <<"a", " ", "b", "(", "c", ")">>
GoodLines == {Line_empty, Line_a, Line_two}
PredicateCount(l) == IF l = Line_empty THEN 0 ELSE IF l = Line_a THEN 1 ELSE 2

\* Lines that do not: no closing paren, an extra one, an open quote
BadLines == {<<"a", "(", "b">>, <<"a", "(", "b", ")", ")">>, <<"\"", "a">>}

StatusLines == {Text_SATISFIABLE, Text_UNSATISFIABLE, <<"U", "N", "K", "N", "O", "W", "N">>}

\* The lines of a capture: the content lines, the status line, 7 lines of statistics
Captures ==
  {content \o <<status>> \o [k \in 1..(TrailerLines - 1) |-> <<>>] :
     content \in BoundedSeq(HeaderLines \cup GoodLines \cup BadLines, MaxLines),
     status \in StatusLines}

IdleCall == [fn |-> "parse_raw", raw |-> <<>>, lines |-> <<>>]

InitRaw == rawline = 0 /\ pc = "ready" /\ call = IdleCall /\ ret = NoReturn

\* answers = snakenest.parse_raw(raw); call.lines keeps the lines raw was
\* written from
ParseRaw ==
  /\ pc = "ready" /\ call.fn = "parse_raw"
  /\ \E lines \in Captures :
       /\ call' = [fn |-> "parse_raw", raw |-> Join(lines, <<"\n">>), lines |-> lines]
       /\ \E r \in {parse_raw(call'.raw, rawline)} :
            ret' = r.ret /\ rawline' = r.rawline
  /\ pc' = "done"

\* The caller is back (with the result, or with the exception caught) and the
\* process goes on to its next call; rawline stays as the last call left it
NextCall ==
  /\ pc = "done" /\ call.fn = "parse_raw"
  /\ rawline < MaxRawline
  /\ pc' = "ready"
  /\ call' = IdleCall
  /\ ret' = NoReturn
  /\ UNCHANGED rawline

SpecRaw == InitRaw /\ [][ParseRaw \/ NextCall]_vars

---------------------------------------------------------------------------
(* The whole model *)

Init == InitScan \/ InitName \/ InitPredicate \/ InitRound \/ InitLookup \/ InitRaw

Next ==
  \/ Scan \/ IntendedName \/ ParsePredicate
  \/ Render \/ Reparse \/ Lookup
  \/ ParseRaw \/ NextCall

Spec == Init /\ [][Next]_vars

---------------------------------------------------------------------------
(* What the properties say of a text, stated by position (1-based) and not *)
(* by running the scanner                                                  *)

Odd(n) == n % 2 = 1

\* The number of backslashes that immediately precede position p
BackslashRun(text, p) ==
  Cardinality({j \in 1..(p - 1) : \A m \in j..(p - 1) : text[m] = "\\"})

\* Position p is not escaped by a preceding backslash
UnescapedAt(text, p) == ~Odd(BackslashRun(text, p))

\* Position p is inside a quoted segment: an odd number of unescaped quotes precede it
InQuoteAt(text, p) ==
  Odd(Cardinality({j \in 1..(p - 1) : text[j] = "\"" /\ UnescapedAt(text, j)}))

\* The parenthesis depth at position p, counting unescaped parentheses
\* outside quoted segments (quotes counting only when they are honored)
DepthAt(text, p, honorquotes) ==
  LET Counted(c) == {j \in 1..(p - 1) :
                       /\ text[j] = c /\ UnescapedAt(text, j)
                       /\ ~(honorquotes /\ InQuoteAt(text, j))}
  IN  Cardinality(Counted("(")) - Cardinality(Counted(")"))

\* Position p of text is an occurrence of target that scan may split at
SplitPoint(text, p, target, honorquotes, honorparens) ==
  /\ text[p] = target
  /\ UnescapedAt(text, p)
  /\ ~(honorquotes /\ InQuoteAt(text, p))
  /\ honorparens => DepthAt(text, p, honorquotes) = 0

---------------------------------------------------------------------------
(* Properties of scan, intended_name and parse_predicate *)

ScanDone == pc = "done" /\ call.fn = "scan"

\* C4: when scan returns a remainder other than None, the character removed
\* between prefix and remainder is the first occurrence of target that is
\* not escaped, not quoted (honorquotes) and at depth 0 (honorparens);
\* otherwise it returns (text, None).
C4_SplitAtFirstQualifying ==
  (ScanDone /\ ret.exc = "none") =>
    LET text == call.text
        p    == Len(ret.val[1]) + 1
    IN  IF ret.val[2] # NoneVal
          THEN /\ p <= Len(text)
               /\ ret.val[1] = SubSeq(text, 1, p - 1)
               /\ ret.val[2][1] = SubSeq(text, p + 1, Len(text))
               /\ SplitPoint(text, p, call.target, call.honorquotes, call.honorparens)
               /\ \A q \in 1..(p - 1) :
                    ~SplitPoint(text, q, call.target, call.honorquotes, call.honorparens)
          ELSE ret.val[1] = text

ConfigurationError(r) ==
  r.exc = "ValueError" /\ r.what \in {"honor quotes", "honor parens"}

\* C5: scan fails with the configuration error for every text, the empty one
\* included, when target is '"' and honorquotes, or a parenthesis and honorparens.
C5_ConfigurationErrorForEveryText ==
  (/\ ScanDone
   /\ \/ call.target = "\"" /\ call.honorquotes
      \/ call.target \in {"(", ")"} /\ call.honorparens)
  => ConfigurationError(ret)

\* C6: a raw name with an odd number of unescaped quotes makes intended_name
\* fail with the ValueError 'Mismatched quotes', and with nothing else.
C6_UnterminatedQuoteError ==
  (/\ pc = "done" /\ call.fn = "intended_name"
   /\ InQuoteAt(call.name, Len(call.name) + 1))
  => (ret.exc = "ValueError" /\ ret.what = "mismatched quotes")

\* C3: a term with an unescaped, unquoted '(' that does not end in ')' makes
\* parse_predicate fail with the 'Malformed predicate' ValueError.
C3_MissingClosingParenFails ==
  (/\ pc = "done" /\ call.fn = "parse_predicate"
   /\ \E p \in 1..Len(call.term) :
        call.term[p] = "(" /\ UnescapedAt(call.term, p) /\ ~InQuoteAt(call.term, p)
   /\ call.term[Len(call.term)] # ")")
  => (ret.exc = "ValueError" /\ ret.what = "malformed predicate")

---------------------------------------------------------------------------
(* Properties of the round trip *)

NeedsNoQuoting(name) ==
  \A c \in {" ", "(", ")", "\\", "\""} : ~Contains(name, c)

\* C1: for every AnswerSet whose names, at every depth, need no quoting (the
\* empty name and names with ',' included), parsing its rendered text gives
\* an AnswerSet equal to it.
C1_RoundTrip ==
  (/\ pc = "done" /\ call.fn = "reparse"
   /\ \A k \in 1..Len(call.A.predicates) :
        \A n \in call.A.predicates[k].strings : NeedsNoQuoting(n))
  => (ret.exc = "none" /\ AnswerSet_eq(ret.val, call.A))

---------------------------------------------------------------------------
(* Properties of lookup *)

LookupDone == pc = "done" /\ call.fn = "lookup"

\* The AnswerSet holds a predicate named n
HasNamed(a, n) == \E k \in 1..Len(a.predicates) : a.predicates[k].name = n

\* lookup("baz", fuzzy=True) on the five leaf predicates, in any order
FiveLeavesBazCall ==
  /\ LookupDone
  /\ Len(call.A.predicates) = 5
  /\ {call.A.predicates[k] : k \in 1..5} = FiveLeaves
  /\ call.name = Name_baz /\ call.fuzzy /\ ~call.anynested

\* C2 as stated: on the five leaf predicates b, ba, az, baz, bz the fuzzy
\* lookup of "baz" contains b, ba, az and baz and does not contain bz.
C2_FuzzyBazAsStated ==
  FiveLeavesBazCall =>
    /\ ret.exc = "none"
    /\ HasNamed(ret.val, Name_b) /\ HasNamed(ret.val, Name_ba)
    /\ HasNamed(ret.val, Name_az) /\ HasNamed(ret.val, Name_baz)
    /\ ~HasNamed(ret.val, Name_bz)

\* C2 amended: on the five leaf predicates the fuzzy lookup of "baz" contains
\* the predicate named baz and none of those named b, ba, az and bz (the
\* search term must be contained in the name, not the name in the term).
C2_FuzzyBazOnlyBaz ==
  FiveLeavesBazCall =>
    /\ ret.exc = "none"
    /\ HasNamed(ret.val, Name_baz)
    /\ ~HasNamed(ret.val, Name_b) /\ ~HasNamed(ret.val, Name_ba)
    /\ ~HasNamed(ret.val, Name_az) /\ ~HasNamed(ret.val, Name_bz)

C2_Witness == FiveLeavesBazCall /\ ret.val.predicates = <<Leaf(Name_baz)>>

Count(seq, x) == Cardinality({k \in 1..Len(seq) : seq[k] = x})

\* C10: the result of any lookup holds each top-level predicate of A at most
\* as often as A does, so it is no longer than A.
C10_ResultIsSubMultiset ==
  LookupDone =>
    /\ ret.exc = "none"
    /\ Len(ret.val.predicates) <= Len(call.A.predicates)
    /\ \A k \in 1..Len(ret.val.predicates) :
         Count(ret.val.predicates, ret.val.predicates[k])
           <= Count(call.A.predicates, ret.val.predicates[k])

---------------------------------------------------------------------------
(* Properties of parse_raw, stated on the lines the raw text was written from *)

RawDone == pc = "done" /\ call.fn = "parse_raw"

\* The first of the last 8 lines, and the lines before the last 8
StatusLineOf(lines) == lines[Max(1, Len(lines) - 7)]
ContentOf(lines) == SubSeq(lines, 1, Len(lines) - 8)

HeaderNumber(l) == CHOOSE n \in AnswerNums : l = HeaderText(n)

\* The positions of the content lines that are no header
SetLines(content) == {i \in 1..Len(content) : content[i] \notin HeaderLines}

\* The position of the k-th of them
KthSetLine(content, k) ==
  CHOOSE i \in SetLines(content) : Cardinality({j \in SetLines(content) : j <= i}) = k

\* The number of the nearest header before position i, or 0
ExpectedNumber(content, i) ==
  LET before == {j \in 1..(i - 1) : content[j] \in HeaderLines}
  IN  IF before = {} THEN 0
      ELSE HeaderNumber(content[CHOOSE j \in before : \A m \in before : m <= j])

\* C7: when the status line is SATISFIABLE and every content line parses,
\* parse_raw returns one AnswerSet for each content line that is no "Answer:"
\* header, in the order of the lines, each with the number of the nearest
\* header before it, or 0; headers and the 8 trailer lines give none.
C7_OneSetPerContentLine ==
  (/\ RawDone
   /\ StatusLineOf(call.lines) = Text_SATISFIABLE
   /\ \A i \in 1..Len(ContentOf(call.lines)) : ContentOf(call.lines)[i] \notin BadLines)
  => LET content == ContentOf(call.lines)
     IN  /\ ret.exc = "none"
         /\ Len(ret.val) = Cardinality(SetLines(content))
         /\ \A k \in 1..Len(ret.val) :
              /\ ret.val[k].set_number = Some(ExpectedNumber(content, KthSetLine(content, k)))
              /\ Len(ret.val[k].predicates) = PredicateCount(content[KthSetLine(content, k)])

\* A set before any header and a set after the header of answer 12, in a call
\* that is not the first of the process
C7_Witness ==
  /\ RawDone /\ ret.exc = "none"
  /\ StatusLineOf(call.lines) = Text_SATISFIABLE
  /\ Len(ContentOf(call.lines)) = 3
  /\ ContentOf(call.lines)[2] = HeaderText(12)
  /\ Len(ret.val) = 2
  /\ ret.val[1].set_number = Some(0) /\ ret.val[2].set_number = Some(12)
  /\ rawline > 3

ParseError(r) ==
  /\ r.exc = "ValueError"
  /\ r.what \in {"malformed predicate", "extra closing paren",
                 "missing closing paren", "mismatched quotes"}

\* The position of the first content line that does not parse
FirstBadLine(content) ==
  CHOOSE i \in 1..Len(content) :
    content[i] \in BadLines /\ \A j \in 1..(i - 1) : content[j] \notin BadLines

\* C9: in any sequence of parse_raw calls, the line number in a
\* MalformedPredicate, UnbalancedParens or UnterminatedQuote error is the
\* 1-based position, in that call's own text, of the line being parsed.
C9_LineNumberWithinOwnText ==
  (RawDone /\ ParseError(ret)) =>
    ret.line = Some(FirstBadLine(ContentOf(call.lines)))

=============================================================================
